---- MODULE Spec2Model ----
(***************************************************************************)
(* Model of the SMS service loader (smsvip_loader.py) and of the FastAPI   *)
(* endpoints that call it (main.py).                                       *)
(*                                                                         *)
(* Python strings that the code inspects character by character (service   *)
(* keys, function names, name fragments) are sequences of one-character    *)
(* strings; opaque strings (phone numbers, messages) are TLA+ strings.     *)
(* Python dicts with a fixed set of keys are records; self.services, whose *)
(* iteration order matters, is a sequence of <<key, func>> items in        *)
(* insertion order.                                                        *)
(***************************************************************************)
EXTENDS Integers, Sequences, FiniteSets, TLC

(***************************************************************************)
(* Bounds of the model.                                                    *)
(***************************************************************************)
\* how many of the declared SERVICE_FILES the model loads
NumSources == 2
\* how many functions the service modules define in total
MaxFunctions == 2
\* largest amount a POST /api/sms/send request asks for
MaxAmount == 3
\* largest amount a GET /api/spam request asks for
MaxSpamAmount == 1
\* how often load_all_services is run on one loader
MaxLoads == 2
\* how many requests the server answers
MaxRequests == 2

(***************************************************************************)
(* config.py                                                               *)
(***************************************************************************)
\* config.MAX_WORKERS is 500; the model scales it down so that submitted
\* calls can exceed the pool and queue for a worker
MAX_WORKERS == 2

ALL_SERVICE_FILES ==
    << <<"s","m","s","v","i","p","_","0">>,
       <<"s","m","s","v","i","p","_","1">>,
       <<"s","m","s","v","i","p","_","2">>,
       <<"s","m","s","v","i","p","_","3">>,
       <<"s","m","s","v","i","p","_","4">> >>

Min(a, b) == IF a < b THEN a ELSE b

SERVICE_FILES == SubSeq(ALL_SERVICE_FILES, 1, Min(NumSources, Len(ALL_SERVICE_FILES)))

(***************************************************************************)
(* Python string operations used by the code                               *)
(***************************************************************************)
UPPERCASE == <<"A","B","C","D","E","F","G","H","I","J","K","L","M",
               "N","O","P","Q","R","S","T","U","V","W","X","Y","Z">>
LOWERCASE == <<"a","b","c","d","e","f","g","h","i","j","k","l","m",
               "n","o","p","q","r","s","t","u","v","w","x","y","z">>

LowerChar(c) ==
    IF \E i \in 1..26 : UPPERCASE[i] = c
    THEN LOWERCASE[CHOOSE i \in 1..26 : UPPERCASE[i] = c]
    ELSE c

\* str.lower()
lower(s) == [i \in 1..Len(s) |-> LowerChar(s[i])]

\* the Python operator `a in b` on two strings
StrIn(a, b) ==
    \E i \in 0..(Len(b) - Len(a)) : \A j \in 1..Len(a) : b[i + j] = a[j]

\* str.startswith('_')
startswith_underscore(s) == Len(s) > 0 /\ s[1] = "_"

(***************************************************************************)
(* The service modules (services/smsvip_N.py), which are not part of the   *)
(* loader: what a module can look like to importlib and inspect.           *)
(*                                                                         *)
(* FUNCTIONS lists the functions a module may define, in the order         *)
(* inspect.getmembers returns them (sorted by name: 'M' < '_' < 'd' ...).  *)
(*   sig = FALSE: inspect.signature(func) raises (a function whose         *)
(*   __signature__ or __wrapped__ attribute is malformed).                 *)
(***************************************************************************)
FUNCTIONS ==
    << [name |-> <<"M","o","m","o">>,     params |-> {"phone"}, sig |-> TRUE],
       [name |-> <<"_","s","i","g","n">>, params |-> {"phone"}, sig |-> TRUE],
       [name |-> <<"d","e","c","o">>,     params |-> {"phone"}, sig |-> FALSE],
       [name |-> <<"f","p","t">>,         params |-> {"sdt"},   sig |-> TRUE],
       [name |-> <<"l","o","g">>,         params |-> {"msg"},   sig |-> TRUE] >>

\* a module either fails to import (with an Exception such as ImportError, or
\* with a BaseException such as the SystemExit of a top-level sys.exit()), or
\* imports and defines some of the FUNCTIONS
Modules ==
    {[kind |-> "ImportError", members |-> {}], [kind |-> "SystemExit", members |-> {}]}
    \cup {[kind |-> "module", members |-> m] : m \in SUBSET (1..Len(FUNCTIONS))}

\* inspect.getmembers(module, inspect.isfunction): the functions of the
\* module as (name, function) pairs sorted by name; a function object is
\* identified by the module that defines it and its index in FUNCTIONS
getmembers(src, module) ==
    LET idx == SelectSeq([i \in 1..Len(FUNCTIONS) |-> i], LAMBDA i : i \in module.members)
    IN  [k \in 1..Len(idx) |-> [name |-> FUNCTIONS[idx[k]].name, func |-> <<src, idx[k]>>]]

Params(func) == FUNCTIONS[func[2]].params
SignatureOk(func) == FUNCTIONS[func[2]].sig

(***************************************************************************)
(* SMSServiceLoader.load_all_services                                      *)
(***************************************************************************)
\* DictSet on a list of pairs instead of a dict: a key that is set again is
\* stored a second time
DictSet_append_always(d, key, func) == Append(d, [key |-> key, func |-> func])

\* self.services[service_key] = func on an insertion-ordered dict
DictSet(d, key, func) ==
    IF \E i \in 1..Len(d) : d[i].key = key
    THEN [i \in 1..Len(d) |-> IF d[i].key = key THEN [key |-> key, func |-> func] ELSE d[i]]
    ELSE Append(d, [key |-> key, func |-> func])

\* service_key = f"{service_file}_{func_name}"
service_key(service_file, func_name) == service_file \o <<"_">> \o func_name

\* the inner loop over the functions of one module, from position k on;
\* st = [services, service_names, exc]; exc is set when an exception is
\* raised (by inspect.signature) and ends the loop
RECURSIVE RegisterFunctions(_, _, _, _)
RegisterFunctions(service_file, functions, k, st) ==
    IF k > Len(functions) THEN st
    ELSE LET func_name == functions[k].name
             func == functions[k].func
         IN  IF startswith_underscore(func_name)
             THEN RegisterFunctions(service_file, functions, k + 1, st)
             ELSE IF ~SignatureOk(func)
             THEN [st EXCEPT !.exc = "TypeError"]
             ELSE IF "phone" \in Params(func) \/ "sdt" \in Params(func)
             THEN RegisterFunctions(service_file, functions, k + 1,
                      [st EXCEPT !.services = DictSet(@, service_key(service_file, func_name), func),
                                 !.service_names = Append(@, func_name)])
             ELSE RegisterFunctions(service_file, functions, k + 1, st)

\* one iteration of `for service_file in config.SERVICE_FILES`: the body of
\* the try block; exc names the exception that ended it, "" if none
LoadOne(src, module, svcs, names) ==
    LET st0 == [services |-> svcs, service_names |-> names, exc |-> ""]
    IN  IF module.kind # "module"
        THEN [st0 EXCEPT !.exc = module.kind]
        ELSE RegisterFunctions(SERVICE_FILES[src], getmembers(src, module), 1, st0)

\* `except Exception` catches every exception but SystemExit,
\* KeyboardInterrupt and GeneratorExit
CaughtByExceptException(exc) == exc \notin {"SystemExit", "KeyboardInterrupt", "GeneratorExit"}

VARIABLES
    loader,         \* the global _loader: "None" or "SMSServiceLoader"
    loadpc,         \* load_all_services: "idle", "loop", "returned", "raised"
    loadIdx,        \* index of the next service_file of the loop
    module,         \* the local `module`: what the last import found
    errors,         \* the service files (indices) logger.error reported as failed
    services,       \* self.services
    service_names   \* self.service_names

loadVars == <<loader, loadpc, loadIdx, module, errors, services, service_names>>

VARIABLES
    pc,             \* the request: "idle", "collect" (in as_completed), "done"
    req,            \* the request being served
    futures,        \* the futures of send_sms_batch, in submission order
    ac,             \* the as_completed generator: "new", "running", then
                    \* "exhausted", "timed_out" (it raised TimeoutError) or
                    \* "closed" (the loop body raised)
    waiter,         \* waiter.finished_futures of as_completed
    results,        \* the results dict of send_sms_batch
    success_count,
    error_count,
    core,           \* how the call into the loader ended
    response,       \* what the endpoint answered
    calls,          \* how often each service function was called
    completed       \* the futures of the request in the order they finished,
                    \* where a specification writes it down

reqVars == <<pc, req, futures, ac, waiter, results, success_count, error_count,
             core, response, calls, completed>>

\* the executor across requests
VARIABLES
    background,     \* the work items of earlier requests that the executor
                    \* still holds, in queue order
    served          \* how many requests have been answered and left behind

poolVars == <<background, served>>

\* get_loader and load_all_services as several threads run them
VARIABLES
    sys_modules,    \* what importlib found for each service file so far (an
                    \* imported module stays in sys.modules; a file that
                    \* fails to import fails the same way again)
    shared_loader,  \* the global _loader: "None" or a loader object, named
                    \* by the thread that constructed it
    loaders,        \* the SMSServiceLoader objects
    thread          \* where each thread is

thrVars == <<sys_modules, shared_loader, loaders, thread>>

vars == <<loader, loadpc, loadIdx, module, errors, services, service_names,
          pc, req, futures, ac, waiter, results, success_count, error_count,
          core, response, calls, completed, background, served,
          sys_modules, shared_loader, loaders, thread>>

NoModule == [kind |-> "None", members |-> {}]

InitLoad ==
    /\ loader = "None"
    /\ loadpc = "idle"
    /\ loadIdx = 1
    /\ module = NoModule
    /\ errors = <<>>
    /\ services = <<>>
    /\ service_names = <<>>

\* get_loader without its test: every call constructs and loads a loader
loader_is_None_untested == TRUE

\* `if _loader is None:`
loader_is_None == loader = "None"

\* get_loader, first call: _loader is None, so the loader is constructed
\* (__init__) and load_all_services is entered
GetLoaderCreate ==
    /\ loader_is_None
    /\ loader' = "SMSServiceLoader"
    /\ services' = <<>>
    /\ service_names' = <<>>
    /\ loadpc' = "loop"
    /\ loadIdx' = 1
    /\ UNCHANGED <<module, errors>>
    /\ UNCHANGED reqVars
    /\ UNCHANGED thrVars
    /\ UNCHANGED poolVars

\* one iteration of the loop of load_all_services over SERVICE_FILES; m is
\* what importlib finds for the service file (the modules define at most
\* MaxFunctions functions in total)
LoadSource(m) ==
    /\ loadpc = "loop"
    /\ loadIdx <= Len(SERVICE_FILES)
    /\ Cardinality(m.members) + Len(service_names) <= MaxFunctions
    /\ LET st == LoadOne(loadIdx, m, services, service_names)
       IN  /\ services' = st.services
           /\ service_names' = st.service_names
           /\ IF st.exc = ""
              THEN /\ loadIdx' = loadIdx + 1
                   /\ loadpc' = "loop"
                   /\ module' = m
                   /\ UNCHANGED errors
              ELSE IF CaughtByExceptException(st.exc)
              THEN /\ loadIdx' = loadIdx + 1       \* logged, continue
                   /\ loadpc' = "loop"
                   /\ module' = m
                   /\ errors' = Append(errors, loadIdx)
              ELSE /\ loadIdx' = loadIdx           \* propagates out of load
                   /\ loadpc' = "raised"
                   /\ module' = NoModule
                   /\ UNCHANGED errors
    /\ UNCHANGED loader
    /\ UNCHANGED reqVars
    /\ UNCHANGED thrVars
    /\ UNCHANGED poolVars

\* the loop is exhausted: return self.services
LoadReturn ==
    /\ loadpc = "loop"
    /\ loadIdx > Len(SERVICE_FILES)
    /\ loadpc' = "returned"
    /\ module' = NoModule
    /\ UNCHANGED <<loader, loadIdx, errors, services, service_names>>
    /\ UNCHANGED reqVars
    /\ UNCHANGED thrVars
    /\ UNCHANGED poolVars

(***************************************************************************)
(* SMSServiceLoader.get_available_services and get_service_count           *)
(***************************************************************************)
\* list(set(self.service_names)): the distinct names, in no particular order
get_available_services(names) == {names[i] : i \in 1..Len(names)}

\* len(self.services)
get_service_count(svcs) == Len(svcs)

(***************************************************************************)
(* get_loader and load_all_services, statement by statement, as threads    *)
(* run them.  get_loader takes no lock, and each of its statements reads   *)
(* the global _loader anew.                                                *)
(***************************************************************************)
Threads == {"t1", "t2"}

\* SMSServiceLoader.__init__; loads, loading and loaded count the calls of
\* load_all_services on the object: entered, in progress, returned
NewLoader ==
    [made |-> TRUE, services |-> <<>>, service_names |-> <<>>,
     loads |-> 0, loading |-> 0, loaded |-> 0]
NoLoader == [NewLoader EXCEPT !.made = FALSE]

InitThreads ==
    /\ sys_modules = [i \in 1..Len(SERVICE_FILES) |-> NoModule]
    /\ shared_loader = "None"
    /\ loaders = [t \in Threads |-> NoLoader]
    /\ thread = [t \in Threads |-> [pc |-> "call", obj |-> "None", idx |-> 1,
                                    in_get_loader |-> TRUE]]

\* the functions that the modules imported so far define
Defined(mods) ==
    {p \in (1..Len(SERVICE_FILES)) \X (1..Len(FUNCTIONS)) : p[2] \in mods[p[1]].members}

\* `if _loader is None:`
GetLoaderTest(t) ==
    /\ thread[t].pc = "call"
    /\ thread' = [thread EXCEPT ![t].pc = IF shared_loader = "None"
                                          THEN "construct" ELSE "return"]
    /\ UNCHANGED <<sys_modules, shared_loader, loaders>>
    /\ UNCHANGED <<loadVars, reqVars, poolVars>>

\* `_loader = SMSServiceLoader()`
GetLoaderConstruct(t) ==
    /\ thread[t].pc = "construct"
    /\ loaders' = [loaders EXCEPT ![t] = NewLoader]
    /\ shared_loader' = t
    /\ thread' = [thread EXCEPT ![t].pc = "load"]
    /\ UNCHANGED sys_modules
    /\ UNCHANGED <<loadVars, reqVars, poolVars>>

\* load_all_services is entered on the object o
EnterLoad(t, o, from_get_loader) ==
    /\ loaders' = [loaders EXCEPT ![o].loads = @ + 1, ![o].loading = @ + 1]
    /\ thread' = [thread EXCEPT ![t] = [pc |-> "loop", obj |-> o, idx |-> 1,
                                        in_get_loader |-> from_get_loader]]

\* `_loader.load_all_services()`: the call is made on whatever the global
\* holds now
GetLoaderLoad(t) ==
    /\ thread[t].pc = "load"
    /\ EnterLoad(t, shared_loader, TRUE)
    /\ UNCHANGED <<sys_modules, shared_loader>>
    /\ UNCHANGED <<loadVars, reqVars, poolVars>>

\* one iteration of the loop of load_all_services in thread t; m is what
\* importlib finds for the service file
ThreadLoadSource(t, m) ==
    LET src == thread[t].idx
        o == thread[t].obj
    IN  /\ thread[t].pc = "loop"
        /\ src <= Len(SERVICE_FILES)
        /\ IF sys_modules[src] # NoModule
           THEN m = sys_modules[src]
           ELSE Cardinality(m.members) + Cardinality(Defined(sys_modules)) <= MaxFunctions
        /\ sys_modules' = [sys_modules EXCEPT ![src] = m]
        /\ LET st == LoadOne(src, m, loaders[o].services, loaders[o].service_names)
           IN  IF st.exc = "" \/ CaughtByExceptException(st.exc)
               THEN /\ loaders' = [loaders EXCEPT ![o].services = st.services,
                                                  ![o].service_names = st.service_names]
                    /\ thread' = [thread EXCEPT ![t].idx = src + 1]
               ELSE /\ loaders' = [loaders EXCEPT ![o].services = st.services,
                                                  ![o].service_names = st.service_names,
                                                  ![o].loading = @ - 1]
                    /\ thread' = [thread EXCEPT ![t].pc = "raised"]
        /\ UNCHANGED shared_loader
        /\ UNCHANGED <<loadVars, reqVars, poolVars>>

\* the loop is exhausted: load_all_services returns
ThreadLoadReturn(t) ==
    /\ thread[t].pc = "loop"
    /\ thread[t].idx > Len(SERVICE_FILES)
    /\ loaders' = [loaders EXCEPT ![thread[t].obj].loading = @ - 1,
                                  ![thread[t].obj].loaded = @ + 1]
    /\ thread' = [thread EXCEPT ![t].pc = IF thread[t].in_get_loader
                                          THEN "return" ELSE "have"]
    /\ UNCHANGED <<sys_modules, shared_loader>>
    /\ UNCHANGED <<loadVars, reqVars, poolVars>>

\* `return _loader`: the caller now holds the loader and reads its registry
GetLoaderReturn(t) ==
    /\ thread[t].pc = "return"
    /\ thread' = [thread EXCEPT ![t].pc = "have", ![t].obj = shared_loader]
    /\ UNCHANGED <<sys_modules, shared_loader, loaders>>
    /\ UNCHANGED <<loadVars, reqVars, poolVars>>

\* load_all_services is called again on the loader that get_loader returned
LoadAgain(t) ==
    /\ thread[t].pc = "have"
    /\ loaders[thread[t].obj].loads < MaxLoads
    /\ EnterLoad(t, thread[t].obj, FALSE)
    /\ UNCHANGED <<sys_modules, shared_loader>>
    /\ UNCHANGED <<loadVars, reqVars, poolVars>>

(***************************************************************************)
(* SMSServiceLoader.get_random_services                                    *)
(***************************************************************************)
\* get_random_services without its clamp
clamp_missing(amount, size) == amount

\* `if amount > len(self.services): amount = len(self.services)`
clamp(amount, size) == IF amount > size THEN size ELSE amount

\* random.sample(population, k): every list of k elements taken from k
\* different positions of the population; ValueError when k is negative or
\* larger than the population
sample(population, k) ==
    IF k < 0 \/ k > Len(population)
    THEN {[kind |-> "raise", exc |-> "ValueError"]}
    ELSE {[kind |-> "return", value |-> [i \in 1..k |-> population[pos[i]]]] :
            pos \in {f \in [1..k -> 1..Len(population)] :
                        \A i, j \in 1..k : i # j => f[i] # f[j]}}

\* the possible outcomes of get_random_services(amount)
get_random_services(svcs, amount) == sample(svcs, clamp(amount, Len(svcs)))

(***************************************************************************)
(* SMSServiceLoader._call_service                                          *)
(***************************************************************************)
\* what the adapter does when it is called: it returns a value that is
\* truthy, returns None (or another falsy value), raises an Exception, or
\* raises a BaseException that is not an Exception (sys.exit() in the adapter)
Behaviours == {"returns_value", "returns_none", "raises_Exception", "raises_SystemExit"}

\* the exception the call of the adapter ends with, "" when it returns
RaisedBy(service_func, behaviour) ==
    IF ~SignatureOk(service_func) THEN "TypeError"
    ELSE IF behaviour = "raises_Exception" THEN "Exception"
    ELSE IF behaviour = "raises_SystemExit" THEN "SystemExit"
    ELSE ""

\* what the service function returns: a value of its own, or None (as a
\* function without a return statement does)
ReturnedBy(behaviour) == IF behaviour = "returns_value" THEN "OTP" ELSE "None"

\* the truth value Python gives a return value: None, False, 0 and empty
\* strings and containers are false
Truthy(value) == value \notin {"None", "False", "0", ""}

\* call_service without the sentinel: the payload is whatever the function
\* returned
call_service_no_sentinel(service_name, service_func, phone, behaviour) ==
    LET exc == RaisedBy(service_func, behaviour)
    IN  IF exc = ""
        THEN [kind |-> "return",
              value |-> [service |-> service_name, status |-> "success",
                         result |-> ReturnedBy(behaviour)]]
        ELSE IF CaughtByExceptException(exc)
        THEN [kind |-> "return",
              value |-> [service |-> service_name, status |-> "error", error |-> exc]]
        ELSE [kind |-> "raise", exc |-> exc]

\* the outcome of _call_service: the dict it returns, or the exception that
\* its `except Exception` lets through
call_service(service_name, service_func, phone, behaviour) ==
    LET exc == RaisedBy(service_func, behaviour)
        result == ReturnedBy(behaviour)
    IN  IF exc = ""
        THEN [kind |-> "return",
              value |-> [service |-> service_name, status |-> "success",
                         result |-> IF Truthy(result) THEN result ELSE "SMS sent"]]
        ELSE IF CaughtByExceptException(exc)
        THEN [kind |-> "return",
              value |-> [service |-> service_name, status |-> "error", error |-> exc]]
        ELSE [kind |-> "raise", exc |-> exc]

(***************************************************************************)
(* SMSServiceLoader.send_sms_single                                        *)
(***************************************************************************)
\* matching_services comparing the name as given, without lower()
matching_services_case_sensitive(svcs, service_name) ==
    SelectSeq(svcs, LAMBDA item : StrIn(service_name, item.key))

\* matching_services: the items whose key contains the name, ignoring case
matching_services(svcs, service_name) ==
    SelectSeq(svcs, LAMBDA item : StrIn(lower(service_name), lower(item.key)))

send_sms_single(svcs, phone, service_name, behaviour) ==
    LET matching == matching_services(svcs, service_name)
    IN  IF matching = <<>>
        THEN [kind |-> "return",
              value |-> [status |-> "error", error |-> "Service not found"]]
        ELSE call_service(matching[1].key, matching[1].func, phone, behaviour)

(***************************************************************************)
(* main.py: the endpoints                                                  *)
(***************************************************************************)
\* `if amount > 2000: amount = 2000` of spam_get
SPAM_LIMIT == 2000

\* POST /api/sms/send
send_sms_batch_response(outcome) ==
    IF outcome.kind = "return"
    THEN [status_code |-> 200,
          body |-> [status |-> "completed",
                    message |-> <<outcome.value.success_count, outcome.value.total_services>>,
                    data |-> outcome.value]]
    ELSE IF CaughtByExceptException(outcome.exc)
    THEN [status_code |-> 500, body |-> [detail |-> outcome.exc]]
    ELSE [status_code |-> 0, body |-> [unhandled |-> outcome.exc]]

\* GET /api/spam
spam_get_response(outcome, phone) ==
    IF outcome.kind = "return"
    THEN [status_code |-> 200,
          body |-> [status |-> "completed",
                    message |-> <<outcome.value.success_count, outcome.value.total_services, phone>>,
                    details |-> outcome.value]]
    ELSE IF CaughtByExceptException(outcome.exc)
    THEN [status_code |-> 200, body |-> [status |-> "error", message |-> outcome.exc]]
    ELSE [status_code |-> 0, body |-> [unhandled |-> outcome.exc]]

\* POST /api/sms/single
send_sms_single_response(outcome, service_name) ==
    IF outcome.kind = "return"
    THEN IF outcome.value.status = "error"
         THEN [status_code |-> 404, body |-> [detail |-> outcome.value.error]]
         ELSE [status_code |-> 200,
               body |-> [status |-> "success", message |-> service_name, data |-> outcome.value]]
    ELSE IF CaughtByExceptException(outcome.exc)
    THEN [status_code |-> 500, body |-> [detail |-> outcome.exc]]
    ELSE [status_code |-> 0, body |-> [unhandled |-> outcome.exc]]

BatchResponse(endpoint, outcome, phone) ==
    IF endpoint = "/api/sms/send" THEN send_sms_batch_response(outcome)
    ELSE spam_get_response(outcome, phone)

(***************************************************************************)
(* Requests                                                                *)
(***************************************************************************)
\* the phone strings that requests carry, as characters
PhoneInputs ==
    { <<"0","9","1","2","3","4","5","6","7","8">>,
      <<"0","9","1","2","-","3","4","5","-","6","7","8">>,
      <<"9","1","2","3","4","5","6","7","8","9">>,
      <<"0","9","1">> }

DIGITS == {"0","1","2","3","4","5","6","7","8","9"}

\* SMSRequest.validate_phone: the digits of v, or ValueError
validate_phone(v) ==
    LET phone == SelectSeq(v, LAMBDA c : c \in DIGITS)
    IN  IF Len(phone) < 10 \/ Len(phone) > 11
        THEN [kind |-> "raise", exc |-> "ValueError"]
        ELSE IF ~(Len(phone) > 0 /\ phone[1] = "0")
        THEN [kind |-> "raise", exc |-> "ValueError"]
        ELSE [kind |-> "return", value |-> phone]

\* amount: int = Field(default=10, ge=1, le=2000)
amount_field_ok(amount) == amount >= 1 /\ amount <= 2000

\* the check of spam_get: `not phone.startswith('0') or len(phone) < 10`
\* answers "So dien thoai khong hop le"
spam_phone_ok(phone) == ~(~(Len(phone) > 0 /\ phone[1] = "0") \/ Len(phone) < 10)

\* phone numbers that pass validate_phone, as it returns them
Phones == {validate_phone(v).value : v \in {w \in PhoneInputs : validate_phone(w).kind = "return"}}
\* phone numbers that pass the check of spam_get
SpamPhones == {v \in PhoneInputs : spam_phone_ok(v)}

ServiceNames ==
    { <<>>, <<"m","o">>, <<"M","O","M","O">>, <<"F","p","T">>, <<"1","_">>,
      <<"p","_","1","_","m">>, <<"v","i","e","o","n">> }

None == [kind |-> "None"]
NoGenerator == [state |-> "new", finished |-> {}, batch |-> <<>>, pending |-> {}]

InitReq ==
    /\ pc = "idle"
    /\ req = None
    /\ futures = <<>>
    /\ ac = NoGenerator
    /\ waiter = <<>>
    /\ results = None
    /\ success_count = 0
    /\ error_count = 0
    /\ core = None
    /\ response = None
    /\ calls = <<>>
    /\ completed = <<>>

InitPool ==
    /\ background = <<>>
    /\ served = 0

Init == InitLoad /\ InitReq /\ InitPool /\ InitThreads

\* get_loader() of an endpoint returns the loader that get_loader created at
\* startup; when load_all_services raised, so did startup_event, and no
\* request is served
LoaderAvailable == loader # "None" /\ loadpc = "returned"

\* the keys of self.services
Keys(svcs) == {svcs[i].key : i \in 1..Len(svcs)}

(***************************************************************************)
(* SMSServiceLoader.send_sms_batch, called by POST /api/sms/send and by    *)
(* GET /api/spam                                                           *)
(***************************************************************************)
\* submit_all with a retry: every selected service is submitted twice
submit_all_retry(selected_services) ==
    [i \in 1..(2 * Len(selected_services)) |->
        [service |-> selected_services[((i - 1) % Len(selected_services)) + 1].key,
         func |-> selected_services[((i - 1) % Len(selected_services)) + 1].func,
         state |-> "PENDING", behaviour |-> "", outcome |-> None]]

\* self.executor.submit(self._call_service, service_name, service_func, phone)
\* for every selected service
submit_all(selected_services) ==
    [i \in 1..Len(selected_services) |->
        [service |-> selected_services[i].key, func |-> selected_services[i].func,
         state |-> "PENDING", behaviour |-> "", outcome |-> None]]

\* new_results reporting the amount after clamping to the registry
new_results_clamped(phone, amount, selected_services) ==
    [phone |-> phone, requested |-> Len(selected_services),
     total_services |-> Len(selected_services), results |-> <<>>]

\* the results dict before the futures are collected
new_results(phone, amount, selected_services) ==
    [phone |-> phone, requested |-> amount,
     total_services |-> Len(selected_services), results |-> <<>>]

\* from the request to the end of the submit loop; the amounts are those the
\* endpoint lets through: 1..2000 for the validated POST body, anything up
\* to the limit for the GET query
BeginBatch(endpoint, phone, amount0) ==
    /\ pc = "idle"
    /\ LoaderAvailable
    /\ LET amount == IF endpoint = "/api/spam" THEN Min(amount0, SPAM_LIMIT) ELSE amount0
       IN  /\ req' = [endpoint |-> endpoint, phone |-> phone, amount |-> amount]
           /\ \E sel \in get_random_services(services, amount) :
                IF sel.kind = "raise"
                THEN /\ core' = sel
                     /\ response' = BatchResponse(endpoint, sel, phone)
                     /\ pc' = "done"
                     /\ UNCHANGED <<futures, results, calls>>
                ELSE /\ results' = new_results(phone, amount, sel.value)
                     /\ futures' = submit_all(sel.value)
                     /\ calls' = [k \in Keys(services) |-> 0]
                     /\ pc' = "collect"
                     /\ UNCHANGED <<core, response>>
    /\ success_count' = 0
    /\ error_count' = 0
    /\ completed' = <<>>
    /\ UNCHANGED <<ac, waiter>>
    /\ UNCHANGED loadVars
    /\ UNCHANGED thrVars
    /\ UNCHANGED poolVars

\* the work items that worker threads of the executor are running: those of
\* the request and those left behind by earlier requests
Running == {i \in 1..Len(futures) : futures[i].state = "RUNNING"}
BackgroundRunning == {j \in 1..Len(background) : background[j].state = "RUNNING"}

\* WorkerFree counting only the work items of the request being served, as
\* if every request had an executor of its own
WorkerFree_per_request == Cardinality(Running) < MAX_WORKERS

\* the executor starts a thread per submitted work item until it has
\* max_workers threads
WorkerFree == Cardinality(Running) + Cardinality(BackgroundRunning) < MAX_WORKERS

\* a request that the endpoint turns away before it calls the loader: the
\* body of POST /api/sms/send fails validation (422), or the phone of
\* GET /api/spam fails its check
RejectBatch(endpoint, phone, amount) ==
    /\ pc = "idle"
    /\ LoaderAvailable
    /\ IF endpoint = "/api/sms/send"
       THEN /\ ~(validate_phone(phone).kind = "return" /\ amount_field_ok(amount))
            /\ response' = [status_code |-> 422, body |-> [detail |-> "ValueError"]]
       ELSE /\ ~spam_phone_ok(phone)
            /\ response' = [status_code |-> 200,
                            body |-> [status |-> "error",
                                      message |-> "So dien thoai khong hop le"]]
    /\ req' = [endpoint |-> endpoint, phone |-> phone, amount |-> amount]
    /\ pc' = "rejected"
    /\ UNCHANGED <<futures, ac, waiter, results, success_count, error_count, core, calls,
                   completed>>
    /\ UNCHANGED loadVars
    /\ UNCHANGED thrVars
    /\ UNCHANGED poolVars

\* a worker thread of the executor takes the oldest queued work item
WorkerStart(i) ==
    /\ futures[i].state = "PENDING"
    /\ \A j \in 1..(i - 1) : futures[j].state # "PENDING"
    /\ \A j \in 1..Len(background) : background[j].state # "PENDING"
    /\ WorkerFree
    /\ futures' = [futures EXCEPT ![i].state = "RUNNING"]
    /\ calls' = [calls EXCEPT ![futures[i].service] = @ + 1]
    /\ UNCHANGED <<pc, req, ac, waiter, results, success_count, error_count, core, response,
                   completed>>
    /\ UNCHANGED loadVars
    /\ UNCHANGED thrVars
    /\ UNCHANGED poolVars

\* _call_service ends in the worker thread; the future is set and the waiter
\* that as_completed installed on it, if any, is notified
set_result(i, behaviour) ==
    /\ futures[i].state = "RUNNING"
    /\ futures' = [futures EXCEPT
            ![i].state = "FINISHED",
            ![i].behaviour = behaviour,
            ![i].outcome = call_service(futures[i].service, futures[i].func, req.phone, behaviour)]
    /\ waiter' = IF ac.state = "running" /\ i \in ac.pending THEN Append(waiter, i) ELSE waiter
    /\ UNCHANGED <<pc, req, ac, results, success_count, error_count, core, response, calls>>
    /\ UNCHANGED loadVars
    /\ UNCHANGED thrVars
    /\ UNCHANGED poolVars

WorkerFinish(i, behaviour) ==
    /\ set_result(i, behaviour)
    /\ UNCHANGED completed

\* WorkerFinish with the order of completion written down, and whether
\* as_completed had been entered
WorkerFinishInOrder(i, behaviour) ==
    /\ set_result(i, behaviour)
    /\ completed' = Append(completed, [future |-> i, collecting |-> ac.state # "new"])

\* as_completed(futures, timeout=config.REQUEST_TIMEOUT) is entered: the
\* futures already finished are set aside, a waiter is installed on all
AsCompletedEnter ==
    /\ pc = "collect"
    /\ ac.state = "new"
    /\ LET done == {i \in 1..Len(futures) : futures[i].state = "FINISHED"}
       IN  ac' = [state |-> "running", finished |-> done, batch |-> <<>>,
                  pending |-> (1..Len(futures)) \ done]
    /\ UNCHANGED <<pc, req, futures, waiter, results, success_count, error_count, completed,
                   core, response, calls>>
    /\ UNCHANGED loadVars
    /\ UNCHANGED thrVars
    /\ UNCHANGED poolVars

\* NextYields without the finished.reverse() of as_completed: the futures
\* the waiter collected are popped from the end, the last finished first
NextYields_unreversed ==
    IF ac.finished # {}
    THEN {[future |-> f, gen |-> [ac EXCEPT !.finished = @ \ {f}], waiter |-> waiter] :
            f \in ac.finished}
    ELSE IF ac.batch # <<>>
    THEN {[future |-> ac.batch[Len(ac.batch)],
           gen |-> [ac EXCEPT !.batch = SubSeq(@, 1, Len(@) - 1),
                              !.pending = @ \ {ac.batch[Len(ac.batch)]}],
           waiter |-> waiter]}
    ELSE IF waiter # <<>>
    THEN {[future |-> waiter[Len(waiter)],
           gen |-> [ac EXCEPT !.batch = SubSeq(waiter, 1, Len(waiter) - 1),
                              !.pending = @ \ {waiter[Len(waiter)]}],
           waiter |-> <<>>]}
    ELSE {}

\* the future that as_completed yields next, with the generator after the
\* yield: first the futures that were finished on entry, in the order of a
\* set; then those the waiter collected, in the order they finished
NextYields ==
    IF ac.finished # {}
    THEN {[future |-> f, gen |-> [ac EXCEPT !.finished = @ \ {f}], waiter |-> waiter] :
            f \in ac.finished}
    ELSE IF ac.batch # <<>>
    THEN {[future |-> Head(ac.batch),
           gen |-> [ac EXCEPT !.batch = Tail(@), !.pending = @ \ {Head(ac.batch)}],
           waiter |-> waiter]}
    ELSE IF waiter # <<>>
    THEN {[future |-> Head(waiter),
           gen |-> [ac EXCEPT !.batch = Tail(waiter), !.pending = @ \ {Head(waiter)}],
           waiter |-> <<>>]}
    ELSE {}

\* the generator is in its wait loop: nothing left to yield without waiting
InWaitLoop == ac.state = "running" /\ ac.finished = {} /\ ac.batch = <<>>

\* the dict that send_sms_batch returns
batch_result(res, successes, failures) ==
    [phone |-> res.phone, requested |-> res.requested,
     total_services |-> res.total_services, results |-> res.results,
     success_count |-> successes, error_count |-> failures]

\* the end of send_sms_batch and of the endpoint that called it
FinishBatch(outcome) ==
    /\ core' = outcome
    /\ response' = BatchResponse(req.endpoint, outcome, req.phone)
    /\ pc' = "done"

\* loop_body with the status test missing: every returned dict counts as a
\* success
loop_body_all_success(res, successes, failures, future) ==
    IF future.outcome.kind = "return"
    THEN [kind |-> "next",
          results |-> [res EXCEPT !.results = Append(@, future.outcome.value)],
          success_count |-> successes + 1,
          error_count |-> failures]
    ELSE IF CaughtByExceptException(future.outcome.exc)
    THEN [kind |-> "next",
          results |-> [res EXCEPT !.results =
                          Append(@, [service |-> future.service, status |-> "error",
                                     error |-> "Timeout or execution error"])],
          success_count |-> successes,
          error_count |-> failures + 1]
    ELSE [kind |-> "raise", exc |-> future.outcome.exc]

\* loop_body with the else branch of the status test missing: an error dict
\* is appended but not counted
loop_body_error_not_counted(res, successes, failures, future) ==
    IF future.outcome.kind = "return"
    THEN [kind |-> "next",
          results |-> [res EXCEPT !.results = Append(@, future.outcome.value)],
          success_count |-> IF future.outcome.value.status = "success"
                            THEN successes + 1 ELSE successes,
          error_count |-> failures]
    ELSE IF CaughtByExceptException(future.outcome.exc)
    THEN [kind |-> "next",
          results |-> [res EXCEPT !.results =
                          Append(@, [service |-> future.service, status |-> "error",
                                     error |-> "Timeout or execution error"])],
          success_count |-> successes,
          error_count |-> failures + 1]
    ELSE [kind |-> "raise", exc |-> future.outcome.exc]

\* the body of `for future in as_completed(...)` for one future: the
\* results, success_count and error_count after it, or the exception that
\* future.result() raises and `except Exception` lets through
loop_body(res, successes, failures, future) ==
    IF future.outcome.kind = "return"
    THEN \* result = future.result()
         [kind |-> "next",
          results |-> [res EXCEPT !.results = Append(@, future.outcome.value)],
          success_count |-> IF future.outcome.value.status = "success"
                            THEN successes + 1 ELSE successes,
          error_count |-> IF future.outcome.value.status = "success"
                          THEN failures ELSE failures + 1]
    ELSE IF CaughtByExceptException(future.outcome.exc)
    THEN \* except Exception as e
         [kind |-> "next",
          results |-> [res EXCEPT !.results =
                          Append(@, [service |-> future.service, status |-> "error",
                                     error |-> "Timeout or execution error"])],
          success_count |-> successes,
          error_count |-> failures + 1]
    ELSE [kind |-> "raise", exc |-> future.outcome.exc]

\* one iteration of `for future in as_completed(...)`
CollectNext ==
    /\ pc = "collect"
    /\ ac.state = "running"
    /\ \E y \in NextYields :
        LET after == loop_body(results, success_count, error_count, futures[y.future])
        IN  /\ waiter' = y.waiter
            /\ IF after.kind = "next"
               THEN /\ results' = after.results
                    /\ success_count' = after.success_count
                    /\ error_count' = after.error_count
                    /\ ac' = y.gen
                    /\ UNCHANGED <<pc, core, response>>
               ELSE /\ ac' = [y.gen EXCEPT !.state = "closed"]
                    /\ FinishBatch(after)
                    /\ UNCHANGED <<results, success_count, error_count>>
    /\ UNCHANGED <<req, futures, calls, completed>>
    /\ UNCHANGED loadVars
    /\ UNCHANGED thrVars
    /\ UNCHANGED poolVars

\* after_deadline cancelling what has not started, as future.cancel() or
\* executor.shutdown(cancel_futures=True) would
after_deadline_cancel(futs) ==
    [i \in 1..Len(futs) |->
        IF futs[i].state = "PENDING" THEN [futs[i] EXCEPT !.state = "CANCELLED"] ELSE futs[i]]

\* what the deadline does to the futures: as_completed only takes its waiter
\* off them, and send_sms_batch, left by the exception, never touches them
after_deadline(futs) == futs

\* the deadline has passed when the wait loop of as_completed looks at the
\* clock while futures are pending: it raises TimeoutError, which nothing in
\* send_sms_batch catches
Timeout ==
    /\ pc = "collect"
    /\ InWaitLoop
    /\ ac.pending # {}
    /\ ac' = [ac EXCEPT !.state = "timed_out"]
    /\ futures' = after_deadline(futures)
    /\ FinishBatch([kind |-> "raise", exc |-> "TimeoutError"])
    /\ UNCHANGED <<req, waiter, results, success_count, error_count, calls, completed>>
    /\ UNCHANGED loadVars
    /\ UNCHANGED thrVars
    /\ UNCHANGED poolVars

\* as_completed is exhausted: the counts are stored and results is returned
ReturnBatch ==
    /\ pc = "collect"
    /\ InWaitLoop
    /\ ac.pending = {}
    /\ ac' = [ac EXCEPT !.state = "exhausted"]
    /\ FinishBatch([kind |-> "return",
                    value |-> batch_result(results, success_count, error_count)])
    /\ UNCHANGED <<req, futures, waiter, results, success_count, error_count, calls,
                   completed>>
    /\ UNCHANGED loadVars
    /\ UNCHANGED thrVars
    /\ UNCHANGED poolVars

(***************************************************************************)
(* POST /api/sms/single: send_sms_single, which calls the service in the   *)
(* thread of the request                                                   *)
(***************************************************************************)
SendSingleBegin(phone, service_name) ==
    /\ pc = "idle"
    /\ LoaderAvailable
    /\ req' = [endpoint |-> "/api/sms/single", phone |-> phone, service_name |-> service_name]
    /\ LET matching == matching_services(services, service_name)
       IN  /\ calls' = [k \in Keys(services) |->
                           IF matching # <<>> /\ k = matching[1].key THEN 1 ELSE 0]
           /\ IF matching = <<>>
              THEN LET outcome == send_sms_single(services, phone, service_name, "")
                   IN  /\ core' = outcome
                       /\ response' = send_sms_single_response(outcome, service_name)
                       /\ pc' = "done"
              ELSE /\ pc' = "single"       \* _call_service runs in this thread
                   /\ UNCHANGED <<core, response>>
    /\ UNCHANGED <<futures, ac, waiter, results, success_count, error_count, completed>>
    /\ UNCHANGED loadVars
    /\ UNCHANGED thrVars
    /\ UNCHANGED poolVars

\* the service function called by send_sms_single ends
SendSingleEnd(behaviour) ==
    /\ pc = "single"
    /\ LET outcome == send_sms_single(services, req.phone, req.service_name, behaviour)
       IN  /\ core' = outcome
           /\ response' = send_sms_single_response(outcome, req.service_name)
    /\ pc' = "done"
    /\ UNCHANGED <<req, futures, ac, waiter, results, success_count, error_count, calls,
                   completed>>
    /\ UNCHANGED loadVars
    /\ UNCHANGED thrVars
    /\ UNCHANGED poolVars

(***************************************************************************)
(* The executor across requests: the endpoints are coroutines of one event *)
(* loop and call the loader without awaiting, so requests are served one   *)
(* after the other; work items that a request left unfinished stay in the  *)
(* executor                                                                *)
(***************************************************************************)
\* GET /api/sms/services (get_available_services) and GET /health
\* (get_service_count); sorted(services)[:50] is all the names as long as
\* there are no more than 50
ReadRegistry(endpoint) ==
    /\ pc = "idle"
    /\ LoaderAvailable
    /\ req' = [endpoint |-> endpoint]
    /\ response' =
          IF endpoint = "/api/sms/services"
          THEN [status_code |-> 200,
                body |-> [status |-> "success",
                          total |-> Cardinality(get_available_services(service_names)),
                          services |-> get_available_services(service_names)]]
          ELSE [status_code |-> 200,
                body |-> [status |-> "healthy",
                          services_loaded |-> get_service_count(services)]]
    /\ pc' = "done"
    /\ UNCHANGED <<futures, ac, waiter, results, success_count, error_count, core, calls,
                   completed>>
    /\ UNCHANGED loadVars
    /\ UNCHANGED thrVars
    /\ UNCHANGED poolVars

\* the futures a request leaves to the executor when it ends
leftover(futs) ==
    LET unfinished == SelectSeq(futs, LAMBDA f : f.state # "FINISHED")
    IN  [j \in 1..Len(unfinished) |->
            [service |-> unfinished[j].service, func |-> unfinished[j].func,
             state |-> unfinished[j].state]]

\* the response has been sent and the event loop takes the next request
NextRequest ==
    /\ pc = "done"
    /\ response.status_code # 0
    /\ served < MaxRequests - 1
    /\ served' = served + 1
    /\ background' = background \o leftover(futures)
    /\ pc' = "idle"
    /\ req' = None
    /\ futures' = <<>>
    /\ ac' = NoGenerator
    /\ waiter' = <<>>
    /\ results' = None
    /\ success_count' = 0
    /\ error_count' = 0
    /\ core' = None
    /\ response' = None
    /\ calls' = <<>>
    /\ completed' = <<>>
    /\ UNCHANGED loadVars
    /\ UNCHANGED thrVars

\* a worker thread takes a queued work item of an earlier request
BackgroundStart(j) ==
    /\ background[j].state = "PENDING"
    /\ \A k \in 1..(j - 1) : background[k].state # "PENDING"
    /\ WorkerFree
    /\ background' = [background EXCEPT ![j].state = "RUNNING"]
    /\ UNCHANGED served
    /\ UNCHANGED <<loadVars, reqVars, thrVars>>

\* a work item of an earlier request ends: its future is set, and nothing
\* refers to that future any more
BackgroundFinish(j) ==
    /\ background[j].state = "RUNNING"
    /\ background' = SubSeq(background, 1, j - 1) \o SubSeq(background, j + 1, Len(background))
    /\ UNCHANGED served
    /\ UNCHANGED <<loadVars, reqVars, thrVars>>

Next ==
    \/ GetLoaderCreate
    \/ \E m \in Modules : LoadSource(m)
    \/ LoadReturn
    \/ \E endpoint \in {"/api/sms/send"}, phone \in Phones, amount \in 1..MaxAmount :
            BeginBatch(endpoint, phone, amount)
    \/ \E endpoint \in {"/api/spam"}, phone \in SpamPhones, amount \in (-1)..MaxSpamAmount :
            BeginBatch(endpoint, phone, amount)
    \/ \E endpoint \in {"/api/sms/send", "/api/spam"}, phone \in PhoneInputs,
          amount \in 0..1 :
            RejectBatch(endpoint, phone, amount)
    \/ \E i \in 1..Len(futures) : WorkerStart(i)
    \/ \E i \in 1..Len(futures), behaviour \in Behaviours : WorkerFinish(i, behaviour)
    \/ AsCompletedEnter
    \/ CollectNext
    \/ Timeout
    \/ ReturnBatch
    \/ \E phone \in Phones, service_name \in ServiceNames :
            SendSingleBegin(phone, service_name)
    \/ \E behaviour \in Behaviours : SendSingleEnd(behaviour)

Spec == Init /\ [][Next]_vars

\* the service modules and the behaviours of their functions that the
\* specification of the executor across requests draws from
PoolModules == {[kind |-> "module", members |-> m] : m \in SUBSET {1}}
PoolBehaviours == {"returns_value", "raises_Exception"}

\* the server answering one request after the other, with the executor
\* keeping the work that earlier requests left behind
NextPool ==
    \/ GetLoaderCreate
    \/ \E m \in PoolModules : LoadSource(m)
    \/ LoadReturn
    \/ \E phone \in Phones : BeginBatch("/api/sms/send", phone, MaxAmount)
    \/ \E i \in 1..Len(futures) : WorkerStart(i)
    \/ \E i \in 1..Len(futures), behaviour \in PoolBehaviours : WorkerFinish(i, behaviour)
    \/ AsCompletedEnter
    \/ CollectNext
    \/ Timeout
    \/ ReturnBatch
    \/ \E phone \in Phones : SendSingleBegin(phone, <<"m","o","m","o">>)
    \/ \E behaviour \in PoolBehaviours : SendSingleEnd(behaviour)
    \/ \E endpoint \in {"/api/sms/services", "/health"} : ReadRegistry(endpoint)
    \/ NextRequest
    \/ \E j \in 1..Len(background) : BackgroundStart(j)
    \/ \E j \in 1..Len(background) : BackgroundFinish(j)

SpecPool == Init /\ [][NextPool]_vars

\* the worker threads are scheduled fairly and the service functions return
SpecPoolFair ==
    /\ SpecPool
    /\ WF_vars(\E i \in 1..Len(futures) : WorkerStart(i))
    /\ WF_vars(\E i \in 1..Len(futures), behaviour \in PoolBehaviours : WorkerFinish(i, behaviour))
    /\ WF_vars(\E j \in 1..Len(background) : BackgroundStart(j))
    /\ WF_vars(\E j \in 1..Len(background) : BackgroundFinish(j))

\* one batch request, with the order in which its calls end written down
NextOrder ==
    \/ GetLoaderCreate
    \/ \E m \in PoolModules : LoadSource(m)
    \/ LoadReturn
    \/ \E phone \in Phones, amount \in 1..MaxAmount :
            BeginBatch("/api/sms/send", phone, amount)
    \/ \E i \in 1..Len(futures) : WorkerStart(i)
    \/ \E i \in 1..Len(futures), behaviour \in PoolBehaviours :
            WorkerFinishInOrder(i, behaviour)
    \/ AsCompletedEnter
    \/ CollectNext
    \/ Timeout
    \/ ReturnBatch

SpecOrder == Init /\ [][NextOrder]_vars

\* first calls of get_loader from several threads
NextLoader ==
    \/ \E t \in Threads : GetLoaderTest(t)
    \/ \E t \in Threads : GetLoaderConstruct(t)
    \/ \E t \in Threads : GetLoaderLoad(t)
    \/ \E t \in Threads, m \in Modules : ThreadLoadSource(t, m)
    \/ \E t \in Threads : ThreadLoadReturn(t)
    \/ \E t \in Threads : GetLoaderReturn(t)

SpecLoader == Init /\ [][NextLoader]_vars

\* one thread that calls get_loader and then load_all_services again
NextReload ==
    \/ GetLoaderTest("t1")
    \/ GetLoaderConstruct("t1")
    \/ GetLoaderLoad("t1")
    \/ \E m \in Modules : ThreadLoadSource("t1", m)
    \/ ThreadLoadReturn("t1")
    \/ GetLoaderReturn("t1")
    \/ LoadAgain("t1")

SpecReload == Init /\ [][NextReload]_vars

(***************************************************************************)
(* Properties                                                              *)
(***************************************************************************)
\* the request called send_sms_batch, send_sms_single
IsBatchReq ==
    /\ req # None
    /\ req.endpoint \in {"/api/sms/send", "/api/spam"}
    /\ pc # "rejected"
IsSingleReq == req # None /\ req.endpoint = "/api/sms/single"

\* send_sms_batch has ended, by a return or by an exception
BatchEnded == pc = "done" /\ IsBatchReq
BatchReturned == BatchEnded /\ core.kind = "return"

Finished == {i \in 1..Len(futures) : futures[i].state = "FINISHED"}
Succeeded == {i \in Finished : futures[i].behaviour \in {"returns_value", "returns_none"}}
Failed == {i \in Finished : futures[i].behaviour \in {"raises_Exception", "raises_SystemExit"}}

\* C1: when the deadline of as_completed elapses before every submitted call
\* has completed, send_sms_batch still returns its dict, holding the results
\* collected so far, and the endpoint answers 200.
C1_DeadlineReturnsPartialResults ==
    (BatchEnded /\ ac.state = "timed_out") =>
        /\ core.kind = "return"
        /\ core.value.results = results.results
        /\ response.status_code = 200

\* C2: whatever way an adapter fails, _call_service returns an error dict for
\* it: no future ends with an exception, and neither send_sms_batch nor
\* send_sms_single raises the exception of an adapter.
C2_AdapterFailureNeverEscapes ==
    /\ \A i \in Finished : futures[i].outcome.kind = "return"
    /\ (pc = "done" /\ core.kind = "raise") => core.exc \in {"TimeoutError", "ValueError"}

\* C3: a dict returned by send_sms_batch (every selected service was
\* collected before the deadline) has one result per selected service,
\* success_count is the number of selected services whose function returned
\* and error_count the number whose function raised.
C3_CountsMatchOutcomes ==
    BatchReturned =>
        /\ Finished = 1..Len(futures)
        /\ core.value.total_services = Len(futures)
        /\ Len(core.value.results) = core.value.total_services
        /\ core.value.success_count = Cardinality(Succeeded)
        /\ core.value.error_count = Cardinality(Failed)

\* exactly one of two selected services failed
C3_Witness ==
    /\ BatchReturned
    /\ core.value.total_services = 2
    /\ Cardinality(Failed) = 1
    /\ core.value.error_count = 1
    /\ core.value.success_count = 1

\* C4: success_count + error_count is the number of results, at every point
\* of the collection and in every dict that send_sms_batch returns.
C4_CountsSumToResults ==
    /\ (IsBatchReq /\ results # None) =>
            success_count + error_count = Len(results.results)
    /\ BatchReturned =>
            core.value.success_count + core.value.error_count = Len(core.value.results)

\* a returned dict whose results are all errors, for a request that asked
\* for more services than are loaded
C4_Witness ==
    /\ BatchReturned
    /\ req.amount > Len(services)
    /\ core.value.error_count = 2
    /\ Len(core.value.results) = 2

PairwiseDistinctKeys(items) ==
    \A i, j \in 1..Len(items) : i # j => items[i].key # items[j].key

\* C5: for every n >= 0, get_random_services(n) returns min(n, size)
\* items of self.services with pairwise different keys, in every registry the
\* loader builds (self.services changes only while pc = "idle"); the futures
\* of a batch are submitted for exactly these.
C5_SelectRandom ==
    /\ pc = "idle" =>
         \A n \in 0..(MaxAmount + 1) :
            \A o \in get_random_services(services, n) :
               /\ o.kind = "return"
               /\ Len(o.value) = Min(n, Len(services))
               /\ \A i \in 1..Len(o.value) : \E j \in 1..Len(services) : o.value[i] = services[j]
               /\ PairwiseDistinctKeys(o.value)
    /\ (IsBatchReq /\ req.amount >= 0) =>
            /\ pc \in {"collect", "done"} /\ results # None
            /\ Len(futures) = Min(req.amount, Len(services))
            /\ \A i \in 1..Len(futures) : futures[i].service \in Keys(services)
            /\ \A i, j \in 1..Len(futures) : i # j => futures[i].service # futures[j].service

\* more services were asked for than the two that are loaded: both are
\* selected, each once
C5_Witness ==
    /\ pc = "collect" /\ IsBatchReq
    /\ Len(services) = 2
    /\ req.amount > Len(services)
    /\ {futures[i].service : i \in 1..Len(futures)} = Keys(services)
    /\ Len(futures) = 2

\* C6: the dict returned by send_sms_batch(phone, amount) holds phone and
\* amount as they were passed, and total_services = min(amount, number of
\* loaded services) = the number of calls submitted to the executor.
C6_BatchResultEchoesRequest ==
    BatchReturned =>
        /\ core.value.phone = req.phone
        /\ core.value.requested = req.amount
        /\ core.value.total_services = Min(req.amount, Len(services))
        /\ core.value.total_services = Len(futures)

\* three services asked for, two loaded
C6_Witness ==
    /\ BatchReturned
    /\ Len(services) = 2
    /\ core.value.requested = 3
    /\ core.value.total_services = 2

\* a and b are the same character up to the case of a letter
SameLetter(a, b) ==
    a = b \/ \E i \in 1..26 : {a, b} = {UPPERCASE[i], LOWERCASE[i]}

ContainsIgnoringCase(fragment, key) ==
    \E off \in 0..(Len(key) - Len(fragment)) :
        \A j \in 1..Len(fragment) : SameLetter(fragment[j], key[off + j])

\* the positions in self.services of the keys that contain the fragment
Matches(fragment) == {i \in 1..Len(services) : ContainsIgnoringCase(fragment, services[i].key)}

\* C7: send_sms_single answers "not found" exactly when no key contains the
\* name as a substring, ignoring case; otherwise it calls the matching
\* service that was registered first, and no other.
C7_FindByName ==
    (pc = "done" /\ IsSingleReq) =>
        IF Matches(req.service_name) = {}
        THEN /\ core.kind = "return"
             /\ "service" \notin DOMAIN core.value
             /\ core.value.status = "error"
             /\ \A k \in DOMAIN calls : calls[k] = 0
        ELSE LET first == CHOOSE i \in Matches(req.service_name) :
                              \A j \in Matches(req.service_name) : i <= j
             IN  /\ calls = [k \in Keys(services) |-> IF k = services[first].key THEN 1 ELSE 0]
                 /\ core.kind = "return" =>
                        /\ "service" \in DOMAIN core.value
                        /\ core.value.service = services[first].key

\* "MOMO" matches the keys of two services named Momo; the first is called
C7_Witness ==
    /\ pc = "done" /\ IsSingleReq
    /\ req.service_name = <<"M","O","M","O">>
    /\ Cardinality(Matches(req.service_name)) = 2
    /\ core.kind = "return"
    /\ core.value.service = services[1].key

\* C8: the single-service request fails for the caller only when no service
\* matches; when a service is found and its call fails, the request succeeds
\* (200) and carries the error dict of _call_service as data.
C8_InvocationErrorIsData ==
    (/\ pc = "done" /\ IsSingleReq
     /\ Matches(req.service_name) # {}
     /\ core.kind = "return"
     /\ core.value.status = "error") =>
        /\ response.status_code = 200
        /\ response.body.data = core.value

\* the function of FUNCTIONS with index f is registered by load_all_services
Accepted(f) ==
    /\ ~startswith_underscore(FUNCTIONS[f].name)
    /\ FUNCTIONS[f].sig
    /\ FUNCTIONS[f].params \cap {"phone", "sdt"} # {}

\* C9: a service file whose loading failed (an error was logged for it) has
\* no entry in self.services, and every function to register of a service
\* file that loaded without error is in self.services.
C9_FailedSourceContributesNothing ==
    /\ \A e \in 1..Len(errors) : \A i \in 1..Len(services) :
            services[i].func[1] # errors[e]
    /\ (loadpc = "loop" /\ module.kind = "module"
        /\ \A e \in 1..Len(errors) : errors[e] # loadIdx - 1) =>
            \A f \in module.members :
                Accepted(f) =>
                    service_key(SERVICE_FILES[loadIdx - 1], FUNCTIONS[f].name) \in Keys(services)

\* C10: in one send_sms_batch no service function is called more than once,
\* only selected services are called, no key occurs twice in results and
\* every key in results is that of a selected service.
C10_NoRetry ==
    (IsBatchReq /\ results # None) =>
        LET selected == {futures[i].service : i \in 1..Len(futures)}
            rs == results.results
        IN  /\ Cardinality(selected) = Min(req.amount, Len(services))
            /\ \A k \in DOMAIN calls : calls[k] <= 1 /\ (calls[k] = 1 => k \in selected)
            /\ \A i, j \in 1..Len(rs) : i # j => rs[i].service # rs[j].service
            /\ \A i \in 1..Len(rs) : rs[i].service \in selected
            /\ BatchReturned => core.value.results = rs

\* the deadline passed with one service failed and collected and the other
\* still running
C10_Witness ==
    /\ BatchEnded /\ ac.state = "timed_out"
    /\ Len(results.results) = 1
    /\ results.results[1].status = "error"
    /\ \E i \in 1..Len(futures) : futures[i].state = "RUNNING" /\ calls[futures[i].service] = 1

\* the loader objects that exist
Made == {o \in Threads : loaders[o].made}
\* the display name of a registered adapter
NameOf(entry) == FUNCTIONS[entry.func[2]].name
RegisteredNames(svcs) == {NameOf(svcs[i]) : i \in 1..Len(svcs)}

\* C11: in every reachable state, also after load_all_services has run
\* again, get_available_services is exactly the set of distinct names of the
\* registered services, get_service_count is the number of distinct keys,
\* and the catalog is never larger than the count.
C11_CatalogIsDistinctNames ==
    \A o \in Made :
        LET catalog == get_available_services(loaders[o].service_names)
            size == get_service_count(loaders[o].services)
        IN  /\ catalog = RegisteredNames(loaders[o].services)
            /\ size = Cardinality(Keys(loaders[o].services))
            /\ Cardinality(catalog) <= size

\* two sources each contribute Momo and the loader has been loaded twice:
\* the catalog has one name, the count is 2
C11_Witness ==
    \E o \in Made :
        /\ loaders[o].loaded = 2
        /\ get_available_services(loaders[o].service_names) = {FUNCTIONS[1].name}
        /\ get_service_count(loaders[o].services) = 2
        /\ Len(loaders[o].service_names) = 4

\* C12: under any interleaving of concurrent first calls of get_loader,
\* every caller obtains a loader on which load_all_services has returned and
\* is not running, and all callers obtain the same loader.
C12_LoaderFullyLoadedWhenObtained ==
    /\ \A t \in Threads :
          thread[t].pc = "have" =>
              /\ loaders[thread[t].obj].loaded >= 1
              /\ loaders[thread[t].obj].loading = 0
    /\ \A t, u \in Threads :
          (thread[t].pc = "have" /\ thread[u].pc = "have") => thread[t].obj = thread[u].obj


\* the service functions that are executing: in worker threads of the
\* executor, and in the thread of a POST /api/sms/single request
InPool == Cardinality(Running) + Cardinality(BackgroundRunning)
Executing == InPool + (IF pc = "single" THEN 1 ELSE 0)
Queued ==
    {<<"request", i>> : i \in {k \in 1..Len(futures) : futures[k].state = "PENDING"}}
    \cup {<<"background", j>> : j \in {k \in 1..Len(background) : background[k].state = "PENDING"}}

\* C13 (as claimed): the number of service functions executing at the same
\* time, counted across batch and single requests and the calls a timed-out
\* batch left behind, never exceeds MAX_WORKERS.
C13_ExecutingWithinMaxWorkers == Executing <= MAX_WORKERS

\* C13 (amended): the service functions executing in the executor, counted
\* across requests and the calls a timed-out batch left behind, never
\* exceed MAX_WORKERS; the call of a single request runs in the thread of
\* the request, in addition to those.
C13_PoolWithinMaxWorkers ==
    /\ InPool <= MAX_WORKERS
    /\ Executing <= MAX_WORKERS + 1

\* the executor is full with a call left behind by an earlier request and a
\* call of this request, and a submitted call waits in the queue
C13_Witness ==
    /\ InPool = MAX_WORKERS
    /\ BackgroundRunning # {}
    /\ Running # {}
    /\ Queued # {}

\* the submitted calls that have not ended, and those that were cancelled
Outstanding ==
    {<<"request", i>> : i \in {k \in 1..Len(futures) : futures[k].state # "FINISHED"}}
    \cup {<<"background", j>> : j \in 1..Len(background)}
Cancelled ==
    {<<"request", i>> : i \in {k \in 1..Len(futures) : futures[k].state = "CANCELLED"}}
    \cup {<<"background", j>> : j \in {k \in 1..Len(background) : background[k].state = "CANCELLED"}}

\* C14: when the deadline of a batch fires no submitted call is cancelled;
\* with fair workers and service functions that return, every submitted
\* call, running or queued, is executed to its end; and a call that ends
\* after the deadline changes neither the outcome of its own request nor
\* the results of any other request.
C14_NoCancelAllComplete ==
    /\ [](Cancelled = {})
    /\ (Outstanding # {}) ~> (Outstanding = {})
    /\ [][((pc = "done" /\ pc' = "done") \/ Len(background') < Len(background))
            => UNCHANGED <<results, core, response>>]_vars

\* the deadline fired while calls of the batch were unfinished, and they
\* have all ended since
C14_Witness ==
    /\ BatchEnded
    /\ ac.state = "timed_out"
    /\ Len(futures) = 2
    /\ \A i \in 1..Len(futures) : futures[i].state = "FINISHED"

\* the position in the results of the call that future i made
ListedAt(i) ==
    CHOOSE k \in 1..Len(core.value.results) : core.value.results[k].service = futures[i].service

\* C15 (as claimed): in every dict send_sms_batch returns, a call that
\* ended strictly before another is listed before it, also when both had
\* ended before as_completed was entered.
C15_ResultsInCompletionOrder ==
    BatchReturned =>
        \A a, b \in 1..Len(completed) :
            a < b => ListedAt(completed[a].future) < ListedAt(completed[b].future)

\* C15 (amended): in every dict send_sms_batch returns, a call that ended
\* after as_completed was entered is listed after every call that ended
\* before it; the calls that had ended before as_completed was entered are
\* listed first, in no particular order.
C15_ResultsInCompletionOrderOnceCollecting ==
    BatchReturned =>
        \A a, b \in 1..Len(completed) :
            (a < b /\ completed[b].collecting)
                => ListedAt(completed[a].future) < ListedAt(completed[b].future)

\* a returned dict lists two calls that both ended while as_completed was
\* waiting, in the order they ended
C15_Witness ==
    /\ BatchReturned
    /\ Len(completed) = 2
    /\ completed[1].collecting /\ completed[2].collecting
    /\ ListedAt(completed[1].future) = 1
    /\ ListedAt(completed[2].future) = 2

\* the dicts that _call_service has returned: in the futures of a batch
\* and to send_sms_single (whose own not-found dict has no service key)
InvocationResults ==
    {[key |-> futures[i].service, behaviour |-> futures[i].behaviour,
      dict |-> futures[i].outcome.value] :
        i \in {k \in Finished : futures[k].outcome.kind = "return"}}
    \cup (IF pc = "done" /\ IsSingleReq /\ core.kind = "return" /\ "service" \in DOMAIN core.value
          THEN {[key |-> core.value.service,
                 behaviour |-> "",       \* not kept for a single request
                 dict |-> core.value]}
          ELSE {})

\* C16: every dict that _call_service returns carries the key of the
\* service and exactly one of result and error: a success has a non-empty
\* result, the function's own value or "SMS sent" when it returned nothing,
\* and an error has an error message and no result.
C16_ExactlyOneOfResultAndError ==
    \A r \in InvocationResults :
        /\ r.dict.service = r.key
        /\ ("result" \in DOMAIN r.dict) # ("error" \in DOMAIN r.dict)
        /\ r.dict.status \in {"success", "error"}
        /\ r.dict.status = "success" =>
              /\ "result" \in DOMAIN r.dict
              /\ r.dict.result \notin {"None", ""}
              /\ r.behaviour = "returns_none" => r.dict.result = "SMS sent"
              /\ r.behaviour = "returns_value" => r.dict.result = "OTP"
        /\ r.dict.status = "error" =>
              /\ "error" \in DOMAIN r.dict
              /\ r.dict.error # ""

\* a batch holds a success with the sentinel and an error
C16_Witness ==
    /\ \E r \in InvocationResults : r.dict.status = "success" /\ r.dict.result = "SMS sent"
    /\ \E r \in InvocationResults : r.dict.status = "error"
    /\ Cardinality(InvocationResults) = 2

\* the format that validate_phone demands of a target: digits only, 10 or
\* 11 long, starting with 0
FormatValid(phone) ==
    /\ \A k \in 1..Len(phone) : phone[k] \in DIGITS
    /\ Len(phone) \in {10, 11}
    /\ phone[1] = "0"

\* C17: every call an endpoint makes into send_sms_batch passes an amount
\* within 1..2000 and a phone that is digits only, 10 or 11 long and
\* starts with 0; the core never receives a zero or negative amount.
C17_CoreGetsValidatedInput ==
    IsBatchReq =>
        /\ 1 <= req.amount /\ req.amount <= SPAM_LIMIT
        /\ FormatValid(req.phone)

\* the service files that load_all_services got through without an error,
\* and the functions to register that their modules define
LoadedWithoutError(src) ==
    /\ sys_modules[src] # NoModule
    /\ LoadOne(src, sys_modules[src], <<>>, <<>>).exc = ""
AcceptedCallables ==
    {p \in Defined(sys_modules) : LoadedWithoutError(p[1]) /\ Accepted(p[2])}

\* C18: after load_all_services every entry of self.services is a function
\* whose name does not start with '_' and that takes 'phone' or 'sdt',
\* stored under service file + "_" + function name; different (file,
\* function) pairs have different keys, and get_service_count equals the
\* number of such functions in the service files that loaded.
C18_RegistryEntries ==
    \A o \in Made :
        (loaders[o].loaded >= 1 /\ loaders[o].loading = 0) =>
            LET svcs == loaders[o].services
            IN  /\ \A i \in 1..Len(svcs) :
                      /\ ~startswith_underscore(NameOf(svcs[i]))
                      /\ Params(svcs[i].func) \cap {"phone", "sdt"} # {}
                      /\ svcs[i].key = service_key(SERVICE_FILES[svcs[i].func[1]], NameOf(svcs[i]))
                /\ PairwiseDistinctKeys(svcs)
                /\ \A i, j \in 1..Len(svcs) : i # j => svcs[i].func # svcs[j].func
                /\ get_service_count(svcs) = Cardinality(AcceptedCallables)

\* C19: once load_all_services has returned, no request changes the
\* registry: batch and single requests, the selection they make and the
\* reads of the names and the count, in any number and order and however
\* the service functions end, leave self.services and self.service_names
\* as they are.
C19_RegistryReadOnlyAfterLoad ==
    [][loadpc = "returned" => (services' = services /\ service_names' = service_names)]_vars

\* a second request has been answered from a registry of two services, after a
\* first one that left work in the executor
C19_Witness ==
    /\ loadpc = "returned"
    /\ Len(services) = 2
    /\ served = 1
    /\ background # <<>>
    /\ pc = "done"

====
